---------------------------- MODULE Spec2Model ----------------------------
(***************************************************************************)
(* A model of the marketing-rag repository:                                *)
(*   - src/src/rag_engine.py     MarketingRAG (build / load / retrieve /   *)
(*                               answer over a persisted Chroma store)     *)
(*   - src/src/data_processor.py load_and_process_campaigns,               *)
(*                               aggregate_by_channel,                     *)
(*                               get_best_channel_by_roas                  *)
(*   - src/src/cli.py            main (the analytics pipeline)             *)
(*                                                                         *)
(* Four specifications share the variables:                                *)
(*   Spec           the MarketingRAG instances and the persisted stores    *)
(*   SpecLifecycle  the same, with the build inputs narrowed               *)
(*   SpecChunk      the text splitter configured in build_knowledge_base   *)
(*   SpecMetrics    the analytics pipeline run by cli.main                 *)
(*                                                                         *)
(* The libraries the repository calls (langchain's recursive splitter and  *)
(* Chroma store of the langchain_community era, pandas, numpy) are         *)
(* modelled by what the called functions do.                               *)
(*                                                                         *)
(* A text is a sequence of tokens [c, n]: a run of n characters c.  The    *)
(* separator characters "\n", "." and " " always come one per token; "a"   *)
(* stands for any other character and comes in runs.  The splitter never   *)
(* cuts inside a run (its separator list has no "" entry), so the run      *)
(* encoding loses nothing of what the splitter does.                       *)
(***************************************************************************)
EXTENDS Integers, Sequences, FiniteSets

VARIABLES
    \* ---- MarketingRAG and the persisted stores (Spec)
    disk,        \* per persist location: directory, collection, entries
    rag,         \* per instance: alive, persist_directory, vectorstore
    completed,   \* per instance: the operations that completed on it
    last,        \* the last call: operation, inputs, outcome, result
    ncalls,      \* number of build_knowledge_base calls made so far
    built,       \* per persist location: the docs of each completed build
    \* ---- the text splitter (SpecChunk)
    ctext,       \* the text handed to split_text
    cchunks,     \* the chunks it returned
    cpc,         \* "start" | "done"
    \* ---- the analytics pipeline (SpecMetrics)
    pergunta,    \* the keywords the lower-cased question contains
    csv,         \* the rows of data/campaigns.csv
    df,          \* load_and_process_campaigns' frame
    by_channel,  \* aggregate_by_channel's frame
    best,        \* get_best_channel_by_roas' outcome
    pc           \* "start" | "loaded" | "aggregated" | "done" | "unsupported"

ragVars     == <<disk, rag, completed, last, ncalls, built>>
chunkVars   == <<ctext, cchunks, cpc>>
metricsVars == <<pergunta, csv, df, by_channel, best, pc>>
vars        == <<disk, rag, completed, last, ncalls, built, ctext, cchunks, cpc,
                 pergunta, csv, df, by_channel, best, pc>>

(***************************************************************************)
(* Bounds of the model.                                                    *)
(***************************************************************************)
MaxTokens == 5     \* tokens of a text handed to the splitter alone
MaxInst   == 2     \* MarketingRAG instances
MaxDocs   == 2     \* documents (and metadata dicts) of one build call
MaxBuilds == 2     \* build_knowledge_base calls of a behaviour
MaxRows   == 2     \* rows of the campaigns table

(***************************************************************************)
(* Program constants.                                                      *)
(***************************************************************************)
chunk_size    == 500
chunk_overlap == 50
default_k     == 4

separators == <<"\n\n", "\n", ".", " ">>

\* ------------------------------------------------------------------------
\* Texts
\* ------------------------------------------------------------------------

Tok(c, n) == [c |-> c, n |-> n]
NL  == Tok("\n", 1)
DOT == Tok(".", 1)
SP  == Tok(" ", 1)

RECURSIVE Length(_)
\* len(text)
Length(t) == IF t = <<>> THEN 0 ELSE Head(t).n + Length(Tail(t))

IsSpace(tok) == tok.c \in {" ", "\n"}

RECURSIVE LStrip(_)
LStrip(t) == IF t # <<>> /\ IsSpace(Head(t)) THEN LStrip(Tail(t)) ELSE t

RECURSIVE RStrip(_)
RStrip(t) ==
    IF t # <<>> /\ IsSpace(t[Len(t)]) THEN RStrip(SubSeq(t, 1, Len(t) - 1)) ELSE t

\* str.strip()
Strip(t) == RStrip(LStrip(t))

RECURSIVE Concat(_)
\* "".join(pieces)
Concat(pieces) ==
    IF pieces = <<>> THEN <<>> ELSE Head(pieces) \o Concat(Tail(pieces))

\* The characters of a separator of the list.
SepChars(s) == IF s = "\n\n" THEN <<"\n", "\n">> ELSE <<s>>

\* The (escaped) separator matches the text at token i.
MatchAt(t, s, i) ==
    LET cs == SepChars(s)
    IN  /\ i + Len(cs) - 1 <= Len(t)
        /\ \A j \in 1..Len(cs) : t[i + j - 1].c = cs[j]

\* re.search(re.escape(s), text)
Search(s, t) == \E i \in 1..Len(t) : MatchAt(t, s, i)

RECURSIVE SplitFrom(_, _, _, _, _)
SplitFrom(t, s, i, cur, acc) ==
    IF i > Len(t) THEN Append(acc, cur)
    ELSE IF MatchAt(t, s, i)
         THEN SplitFrom(t, s, i + Len(SepChars(s)),
                        SubSeq(t, i, i + Len(SepChars(s)) - 1), Append(acc, cur))
         ELSE SplitFrom(t, s, i + 1, Append(cur, t[i]), acc)

\* _split_text_with_regex(text, separator, keep_separator=True): every piece
\* after the first starts with the separator; empty pieces are dropped.
SplitTextWithRegex(t, s) ==
    SelectSeq(SplitFrom(t, s, 1, <<>>, <<>>), LAMBDA p : p # <<>>)

\* TextSplitter._join_docs with the separator "" (keep_separator=True):
\* the joined, stripped text; <<>> stands for None.
JoinDocs(docs) == Strip(Concat(docs))

RECURSIVE PopLoop(_, _, _)
\* The while loop of _merge_splits: drop pieces from the front of the
\* current chunk until what is left fits the overlap and leaves room.
PopLoop(current_doc, total, len) ==
    IF total > chunk_overlap \/ (total + len > chunk_size /\ total > 0)
    THEN PopLoop(Tail(current_doc), total - Length(Head(current_doc)), len)
    ELSE [current_doc |-> current_doc, total |-> total]

RECURSIVE MergeLoop(_, _, _, _)
MergeLoop(splits, docs, current_doc, total) ==
    IF splits = <<>>
    THEN IF JoinDocs(current_doc) # <<>>
         THEN Append(docs, JoinDocs(current_doc)) ELSE docs
    ELSE LET d   == Head(splits)
             len == Length(d)
         IN  IF total + len > chunk_size /\ current_doc # <<>>
             THEN LET docs2  == IF JoinDocs(current_doc) # <<>>
                                THEN Append(docs, JoinDocs(current_doc))
                                ELSE docs
                      popped == PopLoop(current_doc, total, len)
                  IN  MergeLoop(Tail(splits), docs2,
                                Append(popped.current_doc, d),
                                popped.total + len)
             ELSE MergeLoop(Tail(splits), docs, Append(current_doc, d),
                            total + len)

\* TextSplitter._merge_splits(splits, "")
MergeSplits(splits) == MergeLoop(splits, <<>>, <<>>, 0)

\* The first separator of the list found in the text (0: none).
FirstSep(t, seps) ==
    IF \E i \in 1..Len(seps) : Search(seps[i], t)
    THEN CHOOSE i \in 1..Len(seps) :
            Search(seps[i], t) /\ \A j \in 1..(i - 1) : ~Search(seps[j], t)
    ELSE 0

RECURSIVE SplitTextRec(_, _)
RECURSIVE SplitLoop(_, _, _, _)

\* The for loop of RecursiveCharacterTextSplitter._split_text over the
\* pieces: short pieces are gathered and merged, a long piece is split by
\* the remaining separators, or kept whole when none remains.
SplitLoop(splits, new_separators, good_splits, final_chunks) ==
    IF splits = <<>>
    THEN IF good_splits # <<>>
         THEN final_chunks \o MergeSplits(good_splits) ELSE final_chunks
    ELSE LET s == Head(splits)
         IN  IF Length(s) < chunk_size
             THEN SplitLoop(Tail(splits), new_separators,
                            Append(good_splits, s), final_chunks)
             ELSE LET flushed == IF good_splits # <<>>
                                 THEN final_chunks \o MergeSplits(good_splits)
                                 ELSE final_chunks
                  IN  IF new_separators = <<>>
                      THEN SplitLoop(Tail(splits), new_separators, <<>>,
                                     Append(flushed, s))
                      ELSE SplitLoop(Tail(splits), new_separators, <<>>,
                                     flushed \o SplitTextRec(s, new_separators))

\* RecursiveCharacterTextSplitter._split_text(text, separators)
SplitTextRec(t, seps) ==
    LET i              == FirstSep(t, seps)
        separator      == IF i = 0 THEN seps[Len(seps)] ELSE seps[i]
        new_separators == IF i = 0 THEN <<>> ELSE SubSeq(seps, i + 1, Len(seps))
    IN  SplitLoop(SplitTextWithRegex(t, separator), new_separators, <<>>, <<>>)

\* splitter.split_text(text) with the splitter of build_knowledge_base
split_text(t) == SplitTextRec(t, separators)

\* ------------------------------------------------------------------------
\* SpecChunk: the splitter alone, over every text of up to MaxTokens tokens
\* ------------------------------------------------------------------------

RunLens  == {40, 300, 501}
Alphabet == {Tok("a", n) : n \in RunLens} \cup {NL, DOT, SP}

TextsUpTo(k) == UNION {[1..n -> Alphabet] : n \in 0..k}

IdleRag ==
    /\ disk = <<>> /\ rag = <<>> /\ completed = <<>> /\ last = <<>>
    /\ ncalls = 0 /\ built = <<>>
IdleChunk   == ctext = <<>> /\ cchunks = <<>> /\ cpc = "idle"
IdleMetrics ==
    /\ pergunta = {} /\ csv = <<>> /\ df = <<>> /\ by_channel = <<>>
    /\ best = <<>> /\ pc = "idle"

InitChunk ==
    /\ ctext \in TextsUpTo(MaxTokens)
    /\ cchunks = <<>>
    /\ cpc = "start"
    /\ IdleRag /\ IdleMetrics

SplitText ==
    /\ cpc = "start"
    /\ cchunks' = split_text(ctext)
    /\ cpc' = "done"
    /\ UNCHANGED <<ctext, ragVars, metricsVars>>

NextChunk == SplitText

SpecChunk == InitChunk /\ [][NextChunk]_vars


\* ------------------------------------------------------------------------
\* MarketingRAG
\* ------------------------------------------------------------------------

Dirs == {"chroma_db"}
Inst == 1..MaxInst

\* The documents a caller submits: the two kinds alternate in a list.
DocGuide == <<Tok("a", 300), NL, NL, Tok("a", 300)>>   \* two paragraphs
DocBlob  == <<Tok("a", 501)>>                          \* no boundary at all
DocAt(j) == IF j % 2 = 1 THEN DocGuide ELSE DocBlob

\* A metadata dict is the set of its (key, value) pairs.
MetaAt(j) == IF j % 2 = 1 THEN {<<"source", "blog">>} ELSE {<<"source", "faq">>}

\* texts: lists of up to MaxDocs documents, starting with either kind
TextArgs ==
    {[j \in 1..n |-> DocAt(j + o)] : n \in 0..MaxDocs, o \in {0, 1}}

\* metadatas: None, or a list of up to MaxDocs dicts (of any length, also
\* one that differs from the length of texts)
NoMetadatas      == [none |-> TRUE, v |-> <<>>]
SomeMetadatas(v) == [none |-> FALSE, v |-> v]
MetadataArgs ==
    {NoMetadatas}
        \cup {SomeMetadatas([j \in 1..n |-> MetaAt(j)]) : n \in 0..MaxDocs}

Queries == {<<Tok("a", 300)>>, <<Tok("a", 501), DOT>>}
Ks      == {1, default_k}

SeqsUpTo(S, k) == UNION {[1..n -> S] : n \in 0..k}

Min(a, b) == IF a <= b THEN a ELSE b

\* Document(page_content=chunk, metadata=meta)
Document(chunk, meta) == [page_content |-> chunk, metadata |-> meta]

\* if metadatas is None: metadatas = [{} for _ in texts]
MetadatasOrDefault(texts, metadatas) ==
    IF metadatas.none THEN [j \in 1..Len(texts) |-> {}] ELSE metadatas.v

\* The inner loop: one Document per chunk of one text.
ChunkDocuments(text, meta) ==
    LET chunks == split_text(text)
    IN  [c \in 1..Len(chunks) |-> Document(chunks[c], meta)]

RECURSIVE ZipLoop(_, _, _, _)
\* for text, meta in zip(texts, metadatas): zip stops at the shorter list.
ZipLoop(texts, metas, j, docs) ==
    IF j > Min(Len(texts), Len(metas)) THEN docs
    ELSE ZipLoop(texts, metas, j + 1, docs \o ChunkDocuments(texts[j], metas[j]))

\* The docs list build_knowledge_base hands to Chroma.from_documents.
BuildDocs(texts, metadatas) ==
    ZipLoop(texts, MetadatasOrDefault(texts, metadatas), 1, <<>>)

RECURSIVE CountChars(_, _)
CountChars(t, cs) ==
    IF t = <<>> THEN 0
    ELSE (IF Head(t).c \in cs THEN Head(t).n ELSE 0) + CountChars(Tail(t), cs)

\* self.embeddings: an opaque deterministic function text -> vector.  Here
\* the vector counts the text's word characters and its boundary characters.
Embed(t) == <<CountChars(t, {"a"}), CountChars(t, {"\n", ".", " "})>>

\* Chroma's default distance (squared L2).
Distance(u, v) ==
    (u[1] - v[1]) * (u[1] - v[1]) + (u[2] - v[2]) * (u[2] - v[2])

\* The entries Chroma.add_texts stores for docs: each under a fresh uuid, so
\* nothing already in the collection is replaced.
NewEntries(docs) ==
    [j \in 1..Len(docs) |->
        [page_content |-> docs[j].page_content,
         metadata     |-> docs[j].metadata,
         embedding    |-> Embed(docs[j].page_content)]]

\* The collection after Chroma.from_documents(docs, persist_directory=d):
\* the collection of d is got or created, and the new entries added to it.
FromDocuments(entries, docs) == entries \o NewEntries(docs)

\* Outcomes of Chroma.from_documents: an empty docs list is accepted or
\* rejected by the store, depending on its version.
FromDocumentsOutcomes(docs) ==
    IF docs = <<>> THEN {"ok", "StorageFailure"} ELSE {"ok"}

\* The rank of entry i: one more than the number of entries nearer than it
\* (of two entries at the same distance, the one stored first is nearer).
Rank(dist, i) ==
    1 + Cardinality({j \in DOMAIN dist :
                        \/ dist[j] < dist[i]
                        \/ dist[j] = dist[i] /\ j < i})

\* vectorstore.similarity_search(query, k): the k nearest entries, as
\* Documents, nearest first; all of them when fewer than k are stored.
similarity_search(entries, query, k) ==
    LET qv    == Embed(query)
        dist  == [i \in 1..Len(entries) |-> Distance(entries[i].embedding, qv)]
        rank  == [i \in 1..Len(entries) |-> Rank(dist, i)]
        n     == Min(k, Len(entries))
    IN  [r \in 1..n |->
            LET i == CHOOSE i \in 1..Len(entries) : rank[i] = r
            IN  Document(entries[i].page_content, entries[i].metadata)]

\* self.vectorstore
None       == [set |-> FALSE, dir |-> "-"]
Chroma(d)  == [set |-> TRUE, dir |-> d]

NoInstance == [alive |-> FALSE, persist_directory |-> "-", vectorstore |-> None]
NoDir      == [dir |-> FALSE, collection |-> FALSE, entries |-> <<>>]

\* The entries an instance's vectorstore reads.
View(i) == disk[rag[i].vectorstore.dir].entries

\* retrieve without its guard: an unset vectorstore reads as an empty index.
retrieve_Unguarded(vectorstore, entries, query, k) ==
    IF vectorstore = None
    THEN [outcome |-> "ok", docs |-> <<>>]
    ELSE [outcome |-> "ok", docs |-> similarity_search(entries, query, k)]

\* retrieve(query, k): the guard on self.vectorstore, then the search.
retrieve(vectorstore, entries, query, k) ==
    IF vectorstore = None
    THEN [outcome |-> "VectorstoreNotInitialized", docs |-> <<>>]
    ELSE [outcome |-> "ok", docs |-> similarity_search(entries, query, k)]

\* "\n---\n".join(d.page_content for d in docs), kept as the list joined
Context(docs) == [r \in 1..Len(docs) |-> docs[r].page_content]

\* The record of a call.
Call(op, i, outcome) ==
    [op |-> op, inst |-> i, outcome |-> outcome,
     texts |-> <<>>, metadatas |-> NoMetadatas, docs |-> <<>>,
     from_documents_calls |-> 0, embedded |-> 0,
     query |-> <<>>, k |-> 0, result |-> <<>>, context |-> <<>>]

InitRag ==
    /\ disk = [d \in Dirs |-> NoDir]
    /\ rag = [i \in Inst |-> NoInstance]
    /\ completed = [i \in Inst |-> {}]
    /\ last = Call("none", 0, "ok")
    /\ ncalls = 0
    /\ built = [d \in Dirs |-> <<>>]
    /\ IdleChunk /\ IdleMetrics

\* MarketingRAG(persist_directory=d)
New(i, d) ==
    /\ ~rag[i].alive
    /\ rag' = [rag EXCEPT ![i] = [alive |-> TRUE, persist_directory |-> d,
                                  vectorstore |-> None]]
    /\ disk' = [disk EXCEPT ![d].dir = TRUE]
    /\ last' = Call("__init__", i, "ok")
    /\ UNCHANGED <<completed, ncalls, built, chunkVars, metricsVars>>

\* rag.build_knowledge_base(texts, metadatas)
build_knowledge_base(i, texts, metadatas) ==
    /\ rag[i].alive
    /\ ncalls < MaxBuilds
    /\ LET d    == rag[i].persist_directory
           docs == BuildDocs(texts, metadatas)
       IN  \E outcome \in FromDocumentsOutcomes(docs) :
             /\ disk' = [disk EXCEPT
                           ![d].collection = TRUE,
                           ![d].entries =
                               IF outcome = "ok" THEN FromDocuments(@, docs)
                               ELSE @]
             /\ rag' = [rag EXCEPT ![i].vectorstore =
                           IF outcome = "ok" THEN Chroma(d) ELSE @]
             /\ completed' = [completed EXCEPT ![i] =
                           IF outcome = "ok" THEN @ \cup {"build"} ELSE @]
             /\ built' = [built EXCEPT ![d] =
                           IF outcome = "ok" THEN Append(@, docs) ELSE @]
             /\ last' = [Call("build", i, outcome) EXCEPT
                           !.texts = texts, !.metadatas = metadatas,
                           !.docs = docs, !.from_documents_calls = 1,
                           !.embedded = Len(docs)]
    /\ ncalls' = ncalls + 1
    /\ UNCHANGED <<chunkVars, metricsVars>>

\* rag.load_existing_knowledge_base()
load_existing_knowledge_base(i) ==
    /\ rag[i].alive
    /\ LET d == rag[i].persist_directory
       IN  /\ disk' = [disk EXCEPT ![d].collection = TRUE]
           /\ rag' = [rag EXCEPT ![i].vectorstore = Chroma(d)]
    /\ completed' = [completed EXCEPT ![i] = @ \cup {"load"}]
    /\ last' = Call("load", i, "ok")
    /\ UNCHANGED <<ncalls, built, chunkVars, metricsVars>>

\* rag.retrieve(query, k)
Retrieve(i, query, k) ==
    /\ rag[i].alive
    /\ LET r == retrieve(rag[i].vectorstore, View(i), query, k)
       IN  last' = [Call("retrieve", i, r.outcome) EXCEPT
                      !.query = query, !.k = k, !.result = r.docs,
                      !.embedded = IF r.outcome = "ok" THEN 1 ELSE 0]
    /\ UNCHANGED <<disk, rag, completed, ncalls, built, chunkVars,
                   metricsVars>>

\* rag.answer(query, k): retrieve's error propagates; otherwise the answer
\* holds the query and the retrieved contents in ranked order.
Answer(i, query, k) ==
    /\ rag[i].alive
    /\ LET r == retrieve(rag[i].vectorstore, View(i), query, k)
       IN  last' = [Call("answer", i, r.outcome) EXCEPT
                      !.query = query, !.k = k, !.result = r.docs,
                      !.context = Context(r.docs),
                      !.embedded = IF r.outcome = "ok" THEN 1 ELSE 0]
    /\ UNCHANGED <<disk, rag, completed, ncalls, built, chunkVars,
                   metricsVars>>

Next ==
    \/ \E i \in Inst, d \in Dirs : New(i, d)
    \/ \E i \in Inst, texts \in TextArgs, metadatas \in MetadataArgs :
          build_knowledge_base(i, texts, metadatas)
    \/ \E i \in Inst : load_existing_knowledge_base(i)
    \/ \E i \in Inst, q \in Queries, k \in Ks : Retrieve(i, q, k)
    \/ \E i \in Inst, q \in Queries, k \in Ks : Answer(i, q, k)

Spec == InitRag /\ [][Next]_vars

\* The same operations with the build inputs narrowed to an empty list and a
\* one-document list, and one query: the order of the calls on several
\* instances, followed further than Spec does.
LifecycleTexts == {<<>>, <<DocGuide>>}
LifecycleQuery == <<Tok("a", 300)>>

NextLifecycle ==
    \/ \E i \in Inst, d \in Dirs : New(i, d)
    \/ \E i \in Inst, texts \in LifecycleTexts :
          build_knowledge_base(i, texts, NoMetadatas)
    \/ \E i \in Inst : load_existing_knowledge_base(i)
    \/ \E i \in Inst : Retrieve(i, LifecycleQuery, default_k)
    \/ \E i \in Inst : Answer(i, LifecycleQuery, default_k)

SpecLifecycle == InitRag /\ [][NextLifecycle]_vars

\* ------------------------------------------------------------------------
\* The analytics pipeline: data_processor.py and cli.main
\* ------------------------------------------------------------------------

\* A float of the frames: a number num/den in lowest terms, inf or nan.
\* The table's numbers are whole, so the quotients are exact here.
NaN == [kind |-> "nan", num |-> 0, den |-> 1]
Inf == [kind |-> "inf", num |-> 0, den |-> 1]

RECURSIVE GCD(_, _)
GCD(a, b) == IF b = 0 THEN a ELSE GCD(b, a % b)

Ratio(a, b) == [kind |-> "num", num |-> a \div GCD(a, b), den |-> b \div GCD(a, b)]

\* x / y on float columns: a zero denominator gives inf (nan for 0/0)
\* and raises nothing.
TrueDiv(a, b) ==
    IF b # 0 THEN Ratio(a, b) ELSE IF a = 0 THEN NaN ELSE Inf

\* The division left unguarded: the quotient whatever the denominator.
np_where_Unguarded(cond, x, y) == x

\* np.where(cond, x, y), one element
np_where(cond, x, y) == IF cond THEN x ELSE y

\* The three derived columns of a row (lines 42-58 and 86-102).
WithRatios(r) ==
    [channel     |-> r.channel,
     spend_BRL   |-> r.spend_BRL,
     revenue_BRL |-> r.revenue_BRL,
     impressions |-> r.impressions,
     clicks      |-> r.clicks,
     conversions |-> r.conversions,
     cpa_BRL |-> np_where(r.conversions > 0,
                          TrueDiv(r.spend_BRL, r.conversions), NaN),
     roas    |-> np_where(r.spend_BRL > 0,
                          TrueDiv(r.revenue_BRL, r.spend_BRL), NaN),
     ctr     |-> np_where(r.impressions > 0,
                          TrueDiv(r.clicks, r.impressions), NaN)]

\* load_and_process_campaigns: the table's rows (the date column plays no
\* part) with cpa_BRL, roas and ctr added.
load_and_process_campaigns(table) ==
    [i \in 1..Len(table) |-> WithRatios(table[i])]

\* The channel labels in sorted order (groupby sorts its keys).
ChannelOrder == <<"Google", "Meta">>

\* The rows of one group.
Group(frame, channel) == SelectSeq(frame, LAMBDA r : r.channel = channel)

RECURSIVE ColumnSum(_, _)
\* .agg(col=(col, "sum")) over the rows of a group
ColumnSum(rows, col) ==
    IF rows = <<>> THEN 0 ELSE Head(rows)[col] + ColumnSum(Tail(rows), col)

\* x + y on floats that are numbers
Plus(x, y) == Ratio(x.num * y.den + y.num * x.den, x.den * y.den)

RECURSIVE RatioSum(_)
RatioSum(xs) == IF xs = <<>> THEN Ratio(0, 1) ELSE Plus(Head(xs), RatioSum(Tail(xs)))

\* .mean() of a column: the nan values are skipped; nan when none is left.
Mean(xs) ==
    LET valid == SelectSeq(xs, LAMBDA x : x.kind = "num")
    IN  IF valid = <<>> THEN NaN
        ELSE Ratio(RatioSum(valid).num, RatioSum(valid).den * Len(valid))

\* aggregate_by_channel with roas aggregated as the mean of the rows' roas.
aggregate_by_channel_MeanRoas(frame) ==
    LET keys == SelectSeq(ChannelOrder,
                          LAMBDA c : \E i \in 1..Len(frame) : frame[i].channel = c)
    IN  [g \in 1..Len(keys) |->
            LET rows == Group(frame, keys[g])
                row  == WithRatios([channel     |-> keys[g],
                                    spend_BRL   |-> ColumnSum(rows, "spend_BRL"),
                                    revenue_BRL |-> ColumnSum(rows, "revenue_BRL"),
                                    impressions |-> ColumnSum(rows, "impressions"),
                                    clicks      |-> ColumnSum(rows, "clicks"),
                                    conversions |-> ColumnSum(rows, "conversions")])
            IN  [row EXCEPT !.roas = Mean([i \in 1..Len(rows) |-> rows[i].roas])]]

\* aggregate_by_channel: one row per channel present, in sorted order, with
\* the five sums and the ratios recomputed from the sums.
aggregate_by_channel(frame) ==
    LET keys == SelectSeq(ChannelOrder,
                          LAMBDA c : \E i \in 1..Len(frame) : frame[i].channel = c)
    IN  [g \in 1..Len(keys) |->
            LET rows == Group(frame, keys[g])
            IN  WithRatios([channel     |-> keys[g],
                            spend_BRL   |-> ColumnSum(rows, "spend_BRL"),
                            revenue_BRL |-> ColumnSum(rows, "revenue_BRL"),
                            impressions |-> ColumnSum(rows, "impressions"),
                            clicks      |-> ColumnSum(rows, "clicks"),
                            conversions |-> ColumnSum(rows, "conversions")])]

\* x < y on floats that are not nan
Less(x, y) ==
    IF x.kind = "inf" THEN FALSE
    ELSE IF y.kind = "inf" THEN TRUE
    ELSE x.num * y.den < y.num * x.den

\* idxmax giving the last of the rows that hold the greatest value.
idxmax_LastMax(column) ==
    LET valid == {i \in 1..Len(column) : column[i].kind # "nan"}
    IN  IF Len(column) = 0 THEN {[kind |-> "ValueError", label |-> 0]}
        ELSE IF valid = {}
        THEN {[kind |-> "nan", label |-> 0], [kind |-> "ValueError", label |-> 0]}
        ELSE {[kind |-> "label",
               label |-> CHOOSE i \in valid :
                            /\ \A j \in valid : ~Less(column[i], column[j])
                            /\ \A j \in valid :
                                  j > i => Less(column[j], column[i])]}

\* idxmax that does not tell a column of nothing but nan from another: the
\* first label (what an argmax over the raw values gives).
idxmax_NanBlind(column) ==
    LET valid == {i \in 1..Len(column) : column[i].kind # "nan"}
    IN  IF Len(column) = 0 THEN {[kind |-> "ValueError", label |-> 0]}
        ELSE IF valid = {} THEN {[kind |-> "label", label |-> 1]}
        ELSE {[kind |-> "label",
               label |-> CHOOSE i \in valid :
                            /\ \A j \in valid : ~Less(column[i], column[j])
                            /\ \A j \in valid :
                                  j < i => Less(column[j], column[i])]}

\* df["roas"].idxmax(): the label of the first row holding the greatest
\* value, nan values skipped.  An empty column raises ValueError; a column
\* of nothing but nan gives the label nan or raises ValueError, depending
\* on the pandas version.
idxmax(column) ==
    LET valid == {i \in 1..Len(column) : column[i].kind # "nan"}
    IN  IF Len(column) = 0 THEN {[kind |-> "ValueError", label |-> 0]}
        ELSE IF valid = {}
        THEN {[kind |-> "nan", label |-> 0], [kind |-> "ValueError", label |-> 0]}
        ELSE {[kind |-> "label",
               label |-> CHOOSE i \in valid :
                            /\ \A j \in valid : ~Less(column[i], column[j])
                            /\ \A j \in valid :
                                  j < i => Less(column[j], column[i])]}

\* The outcomes of get_best_channel_by_roas(frame): the pair of the row
\* df.loc[] finds at idxmax's label, or the exception raised on the way
\* (df.loc[nan] raises KeyError).
get_best_channel_by_roas(frame) ==
    {IF m.kind = "label"
        THEN [kind |-> "ok", channel |-> frame[m.label].channel,
              roas |-> frame[m.label].roas]
        ELSE [kind |-> IF m.kind = "nan" THEN "KeyError" ELSE "ValueError",
              channel |-> "-", roas |-> NaN]
     : m \in idxmax([i \in 1..Len(frame) |-> frame[i].roas])}

\* The rows data/campaigns.csv may hold.
Rows ==
    [channel : {"Google", "Meta"}, spend_BRL : {0, 1, 2}, revenue_BRL : {0, 3},
     impressions : {0, 4}, clicks : {1}, conversions : {0, 2}]

\* The keywords the question may contain, of those main looks for.
Perguntas == {{"roas", "canal"}, {"roas"}}

InitMetrics ==
    /\ pergunta \in Perguntas
    /\ csv \in SeqsUpTo(Rows, MaxRows)
    /\ df = <<>>
    /\ by_channel = <<>>
    /\ best = [kind |-> "none", channel |-> "-", roas |-> NaN]
    /\ pc = "start"
    /\ IdleRag /\ IdleChunk

\* main: df = load_and_process_campaigns()
LoadAndProcess ==
    /\ pc = "start"
    /\ df' = load_and_process_campaigns(csv)
    /\ pc' = "loaded"
    /\ UNCHANGED <<pergunta, csv, by_channel, best, ragVars, chunkVars>>

\* main: by_channel = aggregate_by_channel(df)
AggregateByChannel ==
    /\ pc = "loaded"
    /\ by_channel' = aggregate_by_channel(df)
    /\ pc' = "aggregated"
    /\ UNCHANGED <<pergunta, csv, df, best, ragVars, chunkVars>>

\* main: the supported question; an exception leaves main uncaught.
GetBestChannel ==
    /\ pc = "aggregated"
    /\ {"roas", "canal"} \subseteq pergunta
    /\ best' \in get_best_channel_by_roas(by_channel)
    /\ pc' = "done"
    /\ UNCHANGED <<pergunta, csv, df, by_channel, ragVars, chunkVars>>

\* main: any other question
Unsupported ==
    /\ pc = "aggregated"
    /\ ~({"roas", "canal"} \subseteq pergunta)
    /\ pc' = "unsupported"
    /\ UNCHANGED <<pergunta, csv, df, by_channel, best, ragVars, chunkVars>>

NextMetrics ==
    \/ LoadAndProcess
    \/ AggregateByChannel
    \/ GetBestChannel
    \/ Unsupported

SpecMetrics == InitMetrics /\ [][NextMetrics]_vars

\* ------------------------------------------------------------------------
\* Claims about MarketingRAG (Spec) and the splitter (SpecChunk)
\* ------------------------------------------------------------------------

NotInitialized == "VectorstoreNotInitialized"

\* C1: retrieve and answer fail with the index-not-initialized error exactly
\* when neither build_knowledge_base nor load_existing_knowledge_base has
\* completed on the instance before the call.
C1_NotInitializedIffNothingCompleted ==
    last.op \in {"retrieve", "answer"} =>
        (last.outcome = NotInitialized <=> completed[last.inst] = {})

\* C1 witness: answer fails on an instance on which a build was called but
\* did not complete, while another instance of the same location answers.
C1_Witness ==
    /\ last.op = "answer"
    /\ last.outcome = NotInitialized
    /\ disk[rag[last.inst].persist_directory].collection
    /\ \E j \in Inst : j # last.inst /\ completed[j] # {}

\* C2 (as claimed): after a second completed build at a location, the
\* persisted entries, and what every instance opened on the location reads,
\* are exactly the chunks of the last build.
C2_RebuildReplaces ==
    \A d \in Dirs :
        Len(built[d]) >= 2 =>
            /\ disk[d].entries = NewEntries(built[d][Len(built[d])])
            /\ \A i \in Inst :
                  rag[i].vectorstore = Chroma(d) =>
                      View(i) = NewEntries(built[d][Len(built[d])])

\* C3 (as claimed): load on a location where no build ever completed fails
\* with IndexNotFound and leaves the instance uninitialized.
C3_LoadFailsWithoutIndex ==
    (last.op = "load" /\ built[rag[last.inst].persist_directory] = <<>>) =>
        /\ last.outcome = "IndexNotFound"
        /\ rag[last.inst].vectorstore = None

\* C4 (as claimed): right after load on a new instance of a location where a
\* build completed, the instance holds exactly the entries of the last build
\* D, no embedding was computed by the load, and every search on it returns
\* what a search over D's entries returns.
C4_LoadRestoresLastBuild ==
    LET d == rag[last.inst].persist_directory
    IN  (last.op = "load" /\ completed[last.inst] = {"load"}
            /\ built[d] # <<>>) =>
            LET D == NewEntries(built[d][Len(built[d])])
            IN  /\ View(last.inst) = D
                /\ last.embedded = 0
                /\ \A q \in Queries, k \in Ks :
                      similarity_search(View(last.inst), q, k)
                          = similarity_search(D, q, k)

\* C5 (as claimed): no chunk of the splitter is longer than chunk_size.
C5_ChunksWithinChunkSize ==
    cpc = "done" =>
        \A c \in 1..Len(cchunks) : Length(cchunks[c]) <= chunk_size

RECURSIVE SumOver(_, _)
SumOver(f, S) ==
    IF S = {} THEN 0
    ELSE LET x == CHOOSE x \in S : TRUE IN f[x] + SumOver(f, S \ {x})

\* C6 (as claimed): a build chunks every text of texts, hands every chunk
\* to the index with the metadata of its own document, in one call of
\* Chroma.from_documents over nothing but those chunks, and a completed
\* build stores them all.
C6_EveryTextChunkedOnce ==
    last.op = "build" =>
        LET chunksOf == [j \in 1..Len(last.texts) |-> split_text(last.texts[j])]
            metaOf(j) == IF last.metadatas.none THEN {} ELSE last.metadatas.v[j]
        IN  /\ last.from_documents_calls = 1
            /\ Len(last.docs)
                 = SumOver([j \in 1..Len(last.texts) |-> Len(chunksOf[j])],
                           1..Len(last.texts))
            /\ \A j \in 1..Len(last.texts) :
                  \A c \in 1..Len(chunksOf[j]) :
                      /\ last.metadatas.none \/ j <= Len(last.metadatas.v)
                      /\ \E p \in 1..Len(last.docs) :
                            last.docs[p] = Document(chunksOf[j][c], metaOf(j))
            /\ last.outcome = "ok" =>
                  \A p \in 1..Len(last.docs) :
                      \E e \in 1..Len(View(last.inst)) :
                          /\ View(last.inst)[e].page_content
                               = last.docs[p].page_content
                          /\ View(last.inst)[e].metadata = last.docs[p].metadata

\* ------------------------------------------------------------------------
\* Claims about the analytics pipeline (SpecMetrics)
\* ------------------------------------------------------------------------

Defined(x) == x.kind = "num"

\* C7: get_best_channel_by_roas reports an error, and returns no pair, when
\* the aggregated table is empty or every roas of it is undefined.
C7_NoMaximumIsAnError ==
    (pc = "done"
        /\ \A g \in 1..Len(by_channel) : by_channel[g].roas = NaN) =>
        /\ best.kind \in {"ValueError", "KeyError"}
        /\ \A o \in get_best_channel_by_roas(by_channel) : o.kind # "ok"

\* C7 witness: the selector has failed on a table that has rows, every roas
\* of which is undefined.
C7_Witness ==
    /\ pc = "done"
    /\ Len(by_channel) = 2
    /\ \A g \in 1..Len(by_channel) : by_channel[g].roas = NaN
    /\ best.kind # "ok"

\* C8: with at least one defined roas, get_best_channel_by_roas returns the
\* (channel, roas) of the first row, in row order, whose roas is the greatest
\* of the defined ones; it has no other outcome on the same table.
C8_FirstMaximumOfDefinedRoas ==
    (pc = "done" /\ \E g \in 1..Len(by_channel) : Defined(by_channel[g].roas)) =>
        /\ best.kind = "ok"
        /\ get_best_channel_by_roas(by_channel) = {best}
        /\ \E g \in 1..Len(by_channel) :
              /\ best.channel = by_channel[g].channel
              /\ best.roas = by_channel[g].roas
              /\ Defined(by_channel[g].roas)
              /\ \A h \in 1..Len(by_channel) :
                    Defined(by_channel[h].roas) =>
                        /\ by_channel[h].roas.num * best.roas.den
                             <= best.roas.num * by_channel[h].roas.den
                        /\ h < g => by_channel[h].roas # best.roas

\* C8 witness: two channels share the greatest roas and the first is chosen.
C8_Witness ==
    /\ pc = "done"
    /\ Len(by_channel) = 2
    /\ Defined(by_channel[1].roas)
    /\ by_channel[1].roas = by_channel[2].roas
    /\ best.kind = "ok"
    /\ best.channel = by_channel[1].channel

\* The sum of a column over the rows of df of one channel.
DfSum(channel, col) ==
    SumOver([i \in 1..Len(df) |-> df[i][col]],
            {i \in 1..Len(df) : df[i].channel = channel})

\* C9: aggregate_by_channel yields exactly one row per distinct channel of
\* its input, holding the sums of the channel's rows and the roas of the
\* sums; an empty input yields an empty result.
C9_OneRowOfSumsPerChannel ==
    pc \in {"aggregated", "done", "unsupported"} =>
        LET channels == {df[i].channel : i \in 1..Len(df)}
        IN  /\ Len(by_channel) = Cardinality(channels)
            /\ \A c \in channels :
                  Cardinality({g \in 1..Len(by_channel) :
                                  by_channel[g].channel = c}) = 1
            /\ df = <<>> => by_channel = <<>>
            /\ \A g \in 1..Len(by_channel) :
                  LET row == by_channel[g]
                  IN  /\ row.channel \in channels
                      /\ row.spend_BRL = DfSum(row.channel, "spend_BRL")
                      /\ row.revenue_BRL = DfSum(row.channel, "revenue_BRL")
                      /\ row.impressions = DfSum(row.channel, "impressions")
                      /\ row.clicks = DfSum(row.channel, "clicks")
                      /\ row.conversions = DfSum(row.channel, "conversions")
                      /\ row.roas =
                           IF DfSum(row.channel, "spend_BRL") = 0 THEN NaN
                           ELSE Ratio(DfSum(row.channel, "revenue_BRL"),
                                      DfSum(row.channel, "spend_BRL"))

\* C9 witness: a channel of two rows whose roas of the sums is not the mean
\* of the two rows' roas.
C9_Witness ==
    /\ pc = "aggregated"
    /\ Len(df) = 2
    /\ Len(by_channel) = 1
    /\ Defined(df[1].roas) /\ Defined(df[2].roas)
    /\ Defined(by_channel[1].roas)
    /\ by_channel[1].roas
         # Ratio(df[1].roas.num * df[2].roas.den + df[2].roas.num * df[1].roas.den,
                 2 * df[1].roas.den * df[2].roas.den)

\* The ratios of a row, as the zero-denominator rule gives them.
RatiosGuarded(r) ==
    /\ r.cpa_BRL = IF r.conversions = 0 THEN NaN
                   ELSE Ratio(r.spend_BRL, r.conversions)
    /\ r.roas = IF r.spend_BRL = 0 THEN NaN
                ELSE Ratio(r.revenue_BRL, r.spend_BRL)
    /\ r.ctr = IF r.impressions = 0 THEN NaN
               ELSE Ratio(r.clicks, r.impressions)
    /\ Inf \notin {r.cpa_BRL, r.roas, r.ctr}

\* C10: zero denominators raise nothing: every row of the table comes out of
\* load_and_process_campaigns, and every row of it and of the aggregate has
\* the undefined sentinel for a ratio whose denominator is 0 and the quotient
\* for every other ratio.
C10_ZeroDenominatorsGiveSentinel ==
    /\ pc \in {"loaded", "aggregated", "done", "unsupported"} =>
          /\ Len(df) = Len(csv)
          /\ \A i \in 1..Len(df) : RatiosGuarded(df[i])
    /\ pc \in {"aggregated", "done", "unsupported"} =>
          \A g \in 1..Len(by_channel) : RatiosGuarded(by_channel[g])

\* C10 witness: a row with conversions = 0 and spend > 0 beside a row with
\* all three ratios defined, and an aggregated row with conversions = 0
\* whose roas is still computed.
C10_Witness ==
    /\ pc = "aggregated"
    /\ \E i, j \in 1..Len(df) :
          /\ df[i].conversions = 0 /\ df[i].spend_BRL > 0
          /\ df[i].cpa_BRL = NaN /\ Defined(df[i].roas)
          /\ Defined(df[j].cpa_BRL) /\ Defined(df[j].roas) /\ Defined(df[j].ctr)
    /\ \E g \in 1..Len(by_channel) :
          /\ by_channel[g].conversions = 0 /\ by_channel[g].cpa_BRL = NaN
          /\ Defined(by_channel[g].roas)

=============================================================================
